---------------------------- MODULE Spec2Model ----------------------------
(***************************************************************************)
(* Model of index/secondary_index.cc (secondary_index::target_parser):     *)
(* parse, is_local, get_target_column_name_from_string, serialize_targets. *)
(*                                                                         *)
(* A string (sstring) is a sequence of one-character strings.  A column    *)
(* definition is identified with the name it was looked up by.  The JSON   *)
(* text primitives json::to_json_value / json::to_sstring (json.hh) and    *)
(* the Json::Value accessors they rest on (jsoncpp) are modelled at the    *)
(* character level, for texts without comments ('/'), whose numbers are    *)
(* unsigned decimal integers and whose string escapes are among \" \\ \n   *)
(* \r \t and \u0000.                                                       *)
(***************************************************************************)
EXTENDS Naturals, Sequences, FiniteSets

VARIABLES
    op,         \* the operation that ran last
    schema,     \* the schema it was given (parse only)
    target,     \* the target string it read, or the one it produced
    targets,    \* the index targets given to serialize_targets
    origin,     \* where `target` came from: stored, serialized, reencoded
    desc,       \* the parsed descriptor whose columns were re-encoded
    ret         \* what the operation returned, or the exception it threw

vars == <<op, schema, target, targets, origin, desc, ret>>

(***************************************************************************)
(* Bounds of the model.                                                    *)
(***************************************************************************)
\* longest list of index targets given to serialize_targets
MaxTargets == 2
\* most columns in one composite (multiple_columns) target
MaxColumns == 2
\* longest "pk" / "ck" array of a generated stored JSON target
MaxElems == 2

(***************************************************************************)
(* Characters.                                                             *)
(***************************************************************************)
DQ == "\""
BS == "\\"
LF == "\n"
CR == "\r"
TAB == "\t"
\* the character of code 0
NUL == "NUL"

Digits == {"0", "1", "2", "3", "4", "5", "6", "7", "8", "9"}

\* byte value of a character, for the byte-wise ordering of member names
CharCode(c) ==
    CASE c = NUL -> 0  [] c = TAB -> 9  [] c = LF -> 10 [] c = CR -> 13 [] c = " " -> 32
      [] c = DQ -> 34  [] c = "(" -> 40 [] c = ")" -> 41 [] c = "," -> 44
      [] c = "0" -> 48 [] c = "1" -> 49 [] c = "2" -> 50 [] c = "3" -> 51
      [] c = "4" -> 52 [] c = "5" -> 53 [] c = "6" -> 54 [] c = "7" -> 55
      [] c = "8" -> 56 [] c = "9" -> 57 [] c = ":" -> 58 [] c = "K" -> 75
      [] c = "[" -> 91 [] c = BS -> 92  [] c = "]" -> 93 [] c = "a" -> 97
      [] c = "b" -> 98 [] c = "c" -> 99 [] c = "d" -> 100 [] c = "e" -> 101
      [] c = "f" -> 102 [] c = "i" -> 105 [] c = "k" -> 107 [] c = "l" -> 108
      [] c = "n" -> 110 [] c = "p" -> 112 [] c = "r" -> 114 [] c = "s" -> 115
      [] c = "t" -> 116 [] c = "u" -> 117 [] c = "v" -> 118 [] c = "x" -> 120
      [] c = "y" -> 121 [] c = "{" -> 123 [] c = "}" -> 125

RECURSIVE StrLessFrom(_, _, _)
StrLessFrom(a, b, i) ==
    IF i > Len(a) \/ i > Len(b) THEN Len(a) < Len(b)
    ELSE IF CharCode(a[i]) < CharCode(b[i]) THEN TRUE
    ELSE IF CharCode(a[i]) > CharCode(b[i]) THEN FALSE
    ELSE StrLessFrom(a, b, i + 1)

\* Json::Value::CZString::operator< : memcmp on the common prefix, then length
StrLess(a, b) == StrLessFrom(a, b, 1)

(***************************************************************************)
(* Json::Value.  type is the ValueType; str holds a string's characters,   *)
(* an integer's canonical decimal digits or a boolean's spelling; elems    *)
(* holds an array's elements or an object's member values; names holds an  *)
(* object's member names, kept in CZString order like the std::map.        *)
(***************************************************************************)
JValue(t, s, es, ns) == [type |-> t, str |-> s, elems |-> es, names |-> ns]

JNull == JValue("null", <<>>, <<>>, <<>>)
JString(s) == JValue("string", s, <<>>, <<>>)
JInt(digits) == JValue("int", digits, <<>>, <<>>)
JBool(b) ==
    JValue("bool", IF b THEN <<"t", "r", "u", "e">> ELSE <<"f", "a", "l", "s", "e">>,
           <<>>, <<>>)
JArray(es) == JValue("array", <<>>, es, <<>>)
JEmptyObject == JValue("object", <<>>, <<>>, <<>>)

isArray(v) == v.type = "array"
isObject(v) == v.type = "object"

\* Json::Value::empty(): null, array and object by size, anything else false
empty(v) ==
    IF v.type \in {"null", "array", "object"} THEN Len(v.elems) = 0 ELSE FALSE

\* Json::Value::append
append(arr, v) == [arr EXCEPT !.elems = Append(@, v)]

MemberIndex(obj, name) ==
    IF \E i \in 1..Len(obj.names) : obj.names[i] = name
    THEN CHOOSE i \in 1..Len(obj.names) : obj.names[i] = name
    ELSE 0

InsertAt(seq, i, x) == SubSeq(seq, 1, i - 1) \o <<x>> \o SubSeq(seq, i, Len(seq))

\* Json::Value::operator[](name) = v on an object: replace, or insert in order
SetMember(obj, name, v) ==
    LET k == MemberIndex(obj, name)
        pos == 1 + Cardinality({i \in 1..Len(obj.names) : StrLess(obj.names[i], name)})
    IN  IF k > 0 THEN [obj EXCEPT !.elems[k] = v]
        ELSE [obj EXCEPT !.names = InsertAt(@, pos, name),
                         !.elems = InsertAt(@, pos, v)]

(***************************************************************************)
(* Json::Value::get(key, default).  find() requires a null or an object    *)
(* value and fails (Json::LogicError) on any other type.                   *)
(***************************************************************************)
GetThrows(v) == v.type \notin {"null", "object"}

get(v, key, default) ==
    IF v.type = "null" \/ MemberIndex(v, key) = 0 THEN default
    ELSE v.elems[MemberIndex(v, key)]

(***************************************************************************)
(* Json::Value::asString().  Arrays and objects are not convertible        *)
(* (Json::LogicError).                                                     *)
(***************************************************************************)
AsStringThrows(v) == v.type \in {"array", "object"}

asString(v) == IF v.type = "null" THEN <<>> ELSE v.str

(***************************************************************************)
(* json::to_sstring: Json::writeString with a StreamWriterBuilder whose    *)
(* indentation is empty, so no white space is written and the member       *)
(* separator is a bare colon.                                              *)
(***************************************************************************)
EscapeChar(c) ==
    CASE c = DQ -> <<BS, DQ>>
      [] c = BS -> <<BS, BS>>
      [] c = LF -> <<BS, "n">>
      [] c = CR -> <<BS, "r">>
      [] c = TAB -> <<BS, "t">>
      [] c = NUL -> <<BS, "u", "0", "0", "0", "0">>
      [] OTHER -> <<c>>

RECURSIVE EscapeFrom(_, _)
EscapeFrom(s, i) ==
    IF i > Len(s) THEN <<>> ELSE EscapeChar(s[i]) \o EscapeFrom(s, i + 1)

valueToQuotedString(s) == <<DQ>> \o EscapeFrom(s, 1) \o <<DQ>>

RECURSIVE to_sstring(_)
RECURSIVE WriteMembers(_, _)
WriteMembers(v, i) ==
    IF i > Len(v.elems) THEN <<>>
    ELSE (IF i > 1 THEN <<",">> ELSE <<>>)
         \o (IF isObject(v) THEN valueToQuotedString(v.names[i]) \o <<":">> ELSE <<>>)
         \o to_sstring(v.elems[i])
         \o WriteMembers(v, i + 1)

to_sstring(v) ==
    CASE v.type = "null" -> <<"n", "u", "l", "l">>
      [] v.type \in {"bool", "int"} -> v.str
      [] v.type = "string" -> valueToQuotedString(v.str)
      [] v.type = "array" -> <<"[">> \o WriteMembers(v, 1) \o <<"]">>
      [] v.type = "object" -> <<"{">> \o WriteMembers(v, 1) \o <<"}">>

(***************************************************************************)
(* json::to_json_value: Json::CharReader::parse with the builder's default *)
(* settings (a root of any type is accepted, text after the root value is  *)
(* ignored, a repeated member name overwrites).                            *)
(***************************************************************************)
IsSpace(c) == c \in {" ", TAB, LF, CR}

RECURSIVE skipSpaces(_, _)
skipSpaces(s, i) ==
    IF i <= Len(s) /\ IsSpace(s[i]) THEN skipSpaces(s, i + 1) ELSE i

\* the index of the quote that closes a string opened before i, or 0
RECURSIVE readString(_, _)
readString(s, i) ==
    IF i > Len(s) THEN 0
    ELSE IF s[i] = BS THEN readString(s, i + 2)
    ELSE IF s[i] = DQ THEN i
    ELSE readString(s, i + 1)

RECURSIVE readNumber(_, _)
readNumber(s, i) ==
    IF i <= Len(s) /\ s[i] \in Digits THEN readNumber(s, i + 1) ELSE i

\* OurReader::match
match(s, i, pattern) ==
    /\ i + Len(pattern) - 1 <= Len(s)
    /\ SubSeq(s, i, i + Len(pattern) - 1) = pattern

Token(t, b, e) == [type |-> t, start |-> b, end |-> e]

\* OurReader::readToken: the token's type, where it starts, where the next begins
readToken(s, i) ==
    LET b == skipSpaces(s, i)
        c == s[b]
    IN  IF b > Len(s) THEN Token("endOfStream", b, b)
        ELSE CASE c = "{" -> Token("objectBegin", b, b + 1)
               [] c = "}" -> Token("objectEnd", b, b + 1)
               [] c = "[" -> Token("arrayBegin", b, b + 1)
               [] c = "]" -> Token("arrayEnd", b, b + 1)
               [] c = "," -> Token("arraySeparator", b, b + 1)
               [] c = ":" -> Token("memberSeparator", b, b + 1)
               [] c = NUL -> Token("endOfStream", b, b + 1)
               [] c = DQ ->
                    IF readString(s, b + 1) = 0 THEN Token("error", b, Len(s) + 1)
                    ELSE Token("string", b, readString(s, b + 1) + 1)
               [] c \in Digits -> Token("number", b, readNumber(s, b))
               [] c = "t" ->
                    IF match(s, b + 1, <<"r", "u", "e">>) THEN Token("true", b, b + 4)
                    ELSE Token("error", b, b + 1)
               [] c = "f" ->
                    IF match(s, b + 1, <<"a", "l", "s", "e">>) THEN Token("false", b, b + 5)
                    ELSE Token("error", b, b + 1)
               [] c = "n" ->
                    IF match(s, b + 1, <<"u", "l", "l">>) THEN Token("null", b, b + 4)
                    ELSE Token("error", b, b + 1)
               [] OTHER -> Token("error", b, b + 1)

\* OurReader::decodeString on the text between the quotes: [ok, str]
RECURSIVE decodeString(_, _, _)
decodeString(s, i, last) ==
    IF i > last THEN [ok |-> TRUE, str |-> <<>>]
    ELSE IF s[i] # BS THEN
        LET r == decodeString(s, i + 1, last)
        IN  [ok |-> r.ok, str |-> <<s[i]>> \o r.str]
    ELSE IF i = last THEN [ok |-> FALSE, str |-> <<>>]
    ELSE LET e == s[i + 1]
             r == decodeString(s, i + 2, last)
             u == decodeString(s, i + 6, last)
         IN  IF e \in {DQ, BS, "n", "r", "t"}
             THEN [ok |-> r.ok,
                   str |-> <<CASE e = "n" -> LF [] e = "r" -> CR [] e = "t" -> TAB
                               [] OTHER -> e>> \o r.str]
             ELSE IF e = "u" /\ i + 5 <= last
                              /\ SubSeq(s, i + 2, i + 5) = <<"0", "0", "0", "0">>
             THEN [ok |-> u.ok, str |-> <<NUL>> \o u.str]
             ELSE [ok |-> FALSE, str |-> <<>>]

\* OurReader::decodeNumber followed by valueToString: the canonical digits
RECURSIVE decodeNumber(_)
decodeNumber(digits) ==
    IF Len(digits) > 1 /\ Head(digits) = "0" THEN decodeNumber(Tail(digits))
    ELSE digits

Read(ok, v, pos) == [ok |-> ok, val |-> v, pos |-> pos]
ReadError == Read(FALSE, JNull, 0)

RECURSIVE readValue(_, _)
RECURSIVE readArray(_, _, _)
RECURSIVE readObject(_, _, _, _)

\* OurReader::readArray of a non-empty array: an element, then ',' or ']'
readArray(s, i, arr) ==
    LET v == readValue(s, i)
        t == readToken(s, v.pos)
    IN  IF ~v.ok THEN ReadError
        ELSE IF t.type = "arrayEnd" THEN Read(TRUE, append(arr, v.val), t.end)
        ELSE IF t.type = "arraySeparator" THEN readArray(s, t.end, append(arr, v.val))
        ELSE ReadError

\* OurReader::readObject: name is the member name read last
readObject(s, i, name, obj) ==
    LET tokenName == readToken(s, i)
        decoded == decodeString(s, tokenName.start + 1, tokenName.end - 2)
        colon == readToken(s, tokenName.end)
        v == readValue(s, colon.end)
        comma == readToken(s, v.pos)
    IN  IF tokenName.type = "objectEnd" /\ name = <<>> THEN Read(TRUE, obj, tokenName.end)
        ELSE IF tokenName.type # "string" THEN ReadError
        ELSE IF ~decoded.ok THEN ReadError
        ELSE IF colon.type # "memberSeparator" THEN ReadError
        ELSE IF ~v.ok THEN ReadError
        ELSE IF comma.type = "objectEnd"
             THEN Read(TRUE, SetMember(obj, decoded.str, v.val), comma.end)
        ELSE IF comma.type = "arraySeparator"
             THEN readObject(s, comma.end, decoded.str, SetMember(obj, decoded.str, v.val))
        ELSE ReadError

\* OurReader::readValue
readValue(s, i) ==
    LET t == readToken(s, i)
        decoded == decodeString(s, t.start + 1, t.end - 2)
    IN  CASE t.type = "objectBegin" -> readObject(s, t.end, <<>>, JEmptyObject)
          [] t.type = "arrayBegin" ->
                IF skipSpaces(s, t.end) <= Len(s) /\ s[skipSpaces(s, t.end)] = "]"
                THEN Read(TRUE, JArray(<<>>), skipSpaces(s, t.end) + 1)
                ELSE readArray(s, t.end, JArray(<<>>))
          [] t.type = "number" ->
                Read(TRUE, JInt(decodeNumber(SubSeq(s, t.start, t.end - 1))), t.end)
          [] t.type = "string" ->
                IF decoded.ok THEN Read(TRUE, JString(decoded.str), t.end) ELSE ReadError
          [] t.type = "true" -> Read(TRUE, JBool(TRUE), t.end)
          [] t.type = "false" -> Read(TRUE, JBool(FALSE), t.end)
          [] t.type = "null" -> Read(TRUE, JNull, t.end)
          [] OTHER -> ReadError

\* json::to_json_value(raw, root): [ok, val]
to_json_value(raw) == readValue(raw, 1)

(***************************************************************************)
(* Schemas.  schema->get_column_definition(name) finds a column exactly    *)
(* when the schema has one of that name; `any` stands for a schema that    *)
(* has a column of every name asked for.                                   *)
(***************************************************************************)
Schema(any, columns) == [any |-> any, columns |-> columns]

get_column_definition(sch, name) == sch.any \/ name \in sch.columns

(***************************************************************************)
(* What an operation returned or threw.  Of a parse: the target_info       *)
(* (pk_columns, ck_columns, type) and the branch that returned it.         *)
(***************************************************************************)
NoResult ==
    [status |-> "none", exc |-> "", what |-> "", name |-> <<>>,
     pk_columns |-> <<>>, ck_columns |-> <<>>, type |-> "", path |-> "",
     str |-> <<>>, flag |-> FALSE]

TargetInfo(pk, ck, type, path) ==
    [NoResult EXCEPT !.status = "returned", !.pk_columns = pk, !.ck_columns = ck,
                     !.type = type, !.path = path]

\* throw std::runtime_error(format("Column {} not found", name))
ColumnNotFound(name, path) ==
    [NoResult EXCEPT !.status = "threw", !.exc = "std::runtime_error",
                     !.what = "Column not found", !.name = name, !.path = path]

\* throw std::runtime_error("pk and ck fields of JSON definition must be arrays")
MustBeArrays ==
    [NoResult EXCEPT !.status = "threw", !.exc = "std::runtime_error",
                     !.what = "pk and ck fields of JSON definition must be arrays",
                     !.path = "json"]

\* the Json::LogicError of a Json::Value accessor used on the wrong type
LogicError(what, path) ==
    [NoResult EXCEPT !.status = "threw", !.exc = "Json::LogicError",
                     !.what = what, !.path = path]

ReturnedString(s) == [NoResult EXCEPT !.status = "returned", !.str = s]
ReturnedBool(b) == [NoResult EXCEPT !.status = "returned", !.flag = b]

PK_TARGET_KEY == <<"p", "k">>
CK_TARGET_KEY == <<"c", "k">>

(***************************************************************************)
(* target_regex: ^(keys|entries|values|full)\((.+)\)$ matched against the  *)
(* whole target.  An ECMAScript '.' matches any character but a line       *)
(* terminator.                                                             *)
(***************************************************************************)
Keywords ==
    { <<"k", "e", "y", "s">>, <<"e", "n", "t", "r", "i", "e", "s">>,
      <<"v", "a", "l", "u", "e", "s">>, <<"f", "u", "l", "l">> }

AnyChar(c) == c \notin {LF, CR}

RegexMatches(t, kw) ==
    /\ Len(t) >= Len(kw) + 3
    /\ SubSeq(t, 1, Len(kw)) = kw
    /\ t[Len(kw) + 1] = "("
    /\ t[Len(t)] = ")"
    /\ \A i \in (Len(kw) + 2)..(Len(t) - 1) : AnyChar(t[i])

\* target.data() read as a C string: the characters before the first NUL
RECURSIVE data(_)
data(t) ==
    IF t = <<>> \/ Head(t) = NUL THEN <<>> ELSE <<Head(t)>> \o data(Tail(t))

\* std::regex_match(target.data(), match, target_regex): [matched, m1, m2]
regex_match(t) ==
    IF \E kw \in Keywords : RegexMatches(data(t), kw)
    THEN LET kw == CHOOSE k \in Keywords : RegexMatches(data(t), k)
         IN  [matched |-> TRUE, m1 |-> kw,
              m2 |-> SubSeq(data(t), Len(kw) + 2, Len(data(t)) - 1)]
    ELSE [matched |-> FALSE, m1 |-> <<>>, m2 |-> <<>>]

\* index_target::from_sstring
from_sstring(kw) ==
    CASE kw = <<"k", "e", "y", "s">> -> "keys"
      [] kw = <<"e", "n", "t", "r", "i", "e", "s">> -> "keys_and_values"
      [] kw = <<"v", "a", "l", "u", "e", "s">> -> "values"
      [] kw = <<"f", "u", "l", "l">> -> "full"

(***************************************************************************)
(* target_parser::parse(schema, target)                                    *)
(***************************************************************************)
\* the loops over pk and ck: asString, then get_column, element by element
RECURSIVE GetColumns(_, _, _, _)
GetColumns(sch, arr, i, cols) ==
    IF i > Len(arr.elems) THEN TargetInfo(cols, <<>>, "", "json")
    ELSE IF AsStringThrows(arr.elems[i])
         THEN LogicError("Type is not convertible to string", "json")
    ELSE IF ~get_column_definition(sch, asString(arr.elems[i]))
         THEN ColumnNotFound(asString(arr.elems[i]), "json")
    ELSE GetColumns(sch, arr, i + 1, Append(cols, asString(arr.elems[i])))

\* the array check with the test of ck left out
NotArrays_PkOnly(pk, ck) == ~isArray(pk)

\* if (!pk.isArray() || !ck.isArray())
NotArrays(pk, ck) == ~isArray(pk) \/ ~isArray(ck)

ParseObject(sch, json_value) ==
    LET pk == get(json_value, PK_TARGET_KEY, JArray(<<>>))
        ck == get(json_value, CK_TARGET_KEY, JArray(<<>>))
        pks == GetColumns(sch, pk, 1, <<>>)
        cks == GetColumns(sch, ck, 1, <<>>)
    IN  IF NotArrays(pk, ck) THEN MustBeArrays
        ELSE IF pks.status = "threw" THEN pks
        ELSE IF cks.status = "threw" THEN cks
        ELSE TargetInfo(pks.pk_columns, cks.pk_columns, "values", "json")

\* Fallback and treat the whole string as a single target
ParseFallback(sch, t) ==
    IF get_column_definition(sch, t) THEN TargetInfo(<<t>>, <<>>, "values", "bare")
    ELSE ColumnNotFound(t, "bare")

ParseFunctional(sch, m) ==
    IF get_column_definition(sch, m.m2)
    THEN TargetInfo(<<m.m2>>, <<>>, from_sstring(m.m1), "functional")
    ELSE ColumnNotFound(m.m2, "functional")

\* if (is_json && json_value.isObject())
IsJsonObject(j) == j.ok /\ isObject(j.val)

parse(sch, t) ==
    LET m == regex_match(t)
        j == to_json_value(t)
    IN  IF m.matched THEN ParseFunctional(sch, m)
        ELSE IF IsJsonObject(j) THEN ParseObject(sch, j.val)
        ELSE ParseFallback(sch, t)

(***************************************************************************)
(* target_parser::is_local(target_string)                                  *)
(***************************************************************************)
is_local(t) ==
    LET j == to_json_value(t)
        pk == get(j.val, PK_TARGET_KEY, JArray(<<>>))
        ck == get(j.val, CK_TARGET_KEY, JArray(<<>>))
    IN  IF ~j.ok THEN ReturnedBool(FALSE)
        ELSE IF GetThrows(j.val)
             THEN LogicError("find requires objectValue or nullValue", "")
        ELSE ReturnedBool(~empty(pk) /\ ~empty(ck))

(***************************************************************************)
(* target_parser::get_target_column_name_from_string(targets)              *)
(***************************************************************************)
FirstAsString(arr) ==
    IF AsStringThrows(arr.elems[1])
    THEN LogicError("Type is not convertible to string", "")
    ELSE ReturnedString(asString(arr.elems[1]))

get_target_column_name_from_string(t) ==
    LET j == to_json_value(t)
        pk == get(j.val, PK_TARGET_KEY, JArray(<<>>))
        ck == get(j.val, CK_TARGET_KEY, JArray(<<>>))
    IN  IF ~j.ok THEN ReturnedString(t)
        ELSE IF GetThrows(j.val)
             THEN LogicError("find requires objectValue or nullValue", "")
        ELSE IF isArray(ck) /\ ~empty(ck) THEN FirstAsString(ck)
        ELSE IF isArray(pk) /\ ~empty(pk) THEN FirstAsString(pk)
        ELSE ReturnedString(t)

(***************************************************************************)
(* target_parser::serialize_targets(targets).  An index target's value is  *)
(* a single_column or a multiple_columns; a column's to_string() is its    *)
(* name.                                                                   *)
(***************************************************************************)
SingleColumn(c) == [kind |-> "single_column", columns |-> <<c>>]
MultipleColumns(cs) == [kind |-> "multiple_columns", columns |-> cs]

RECURSIVE JStrings(_, _)
JStrings(cs, i) ==
    IF i > Len(cs) THEN <<>> ELSE <<JString(cs[i])>> \o JStrings(cs, i + 1)

as_json_visitor(tg) ==
    IF tg.kind = "multiple_columns" THEN JArray(JStrings(tg.columns, 1))
    ELSE JString(tg.columns[1])

\* the bare name is returned for one target that is a single column
IsBare(ts) == Len(ts) = 1 /\ ts[1].kind = "single_column"

\* pk_json, wrapped in an array unless it is one
PkJson(tg) ==
    IF isArray(as_json_visitor(tg)) THEN as_json_visitor(tg)
    ELSE append(JArray(<<>>), as_json_visitor(tg))

RECURSIVE CkJson(_, _)
CkJson(ts, i) ==
    IF i > Len(ts) THEN JArray(<<>>)
    ELSE [CkJson(ts, i + 1) EXCEPT !.elems = <<as_json_visitor(ts[i])>> \o @]

\* the test for further targets off by one: targets.size() > 0
HasCk_OffByOne(ts) == Len(ts) > 0

\* if (targets.size() > 1)
HasCk(ts) == Len(ts) > 1

TargetsJson(ts) ==
    LET json_map == SetMember(JEmptyObject, PK_TARGET_KEY, PkJson(ts[1]))
    IN  IF HasCk(ts) THEN SetMember(json_map, CK_TARGET_KEY, CkJson(ts, 2))
        ELSE json_map

serialize_targets(ts) ==
    IF IsBare(ts) THEN ts[1].columns[1] ELSE to_sstring(TargetsJson(ts))

(***************************************************************************)
(* Inputs.                                                                 *)
(***************************************************************************)
SeqsUpTo(S, n) == UNION {[1..k -> S] : k \in 1..n}

Col_a == <<"a">>
Col_b == <<"b">>
Col_keys_a == <<"k", "e", "y", "s", "(", "a", ")">>
Col_braces == <<"{", "}">>
Col_quoted == <<"x", DQ, "y">>
Col_lines == <<"a", LF, "b">>
Col_parens == <<"a", ")", "(", "b">>
Col_nul == <<"a", NUL, "b">>

\* schemas: one with every column, and those with some of a and b
Schemas == {Schema(TRUE, {})} \cup {Schema(FALSE, cs) : cs \in SUBSET {Col_a, Col_b}}

\* the schemas a serialized target is parsed back under
ReparseSchemas == {Schema(TRUE, {}), Schema(FALSE, {Col_a})}

\* index targets: single columns, and composites of up to MaxColumns columns
SingleNames == {Col_a, Col_b, Col_quoted}
CompositeNames == {Col_a, Col_b}

IndexTargets ==
    {SingleColumn(c) : c \in SingleNames}
        \cup {MultipleColumns(cs) : cs \in SeqsUpTo(CompositeNames, MaxColumns)}

TargetLists == SeqsUpTo(IndexTargets, MaxTargets)

\* stored legacy targets: keyword(column), the column's name not empty
LegacyColumns == {Col_a, Col_b, Col_braces, Col_parens, Col_lines, Col_nul}

FunctionalTargets ==
    {kw \o <<"(">> \o c \o <<")">> : kw \in Keywords, c \in LegacyColumns}

\* stored JSON objects: "pk" and "ck" each absent, not an array, or an array
ElemValues == {JString(Col_a), JString(Col_b), JArray(<<JString(Col_a)>>)}

FieldValues ==
    {JArray(<<>>)}
        \cup {JArray(es) : es \in SeqsUpTo(ElemValues, MaxElems)}
        \cup {JArray(<<e>>) : e \in {JNull, JBool(TRUE), JInt(<<"1">>), JEmptyObject,
                                     JString(Col_keys_a)}}
        \cup {JString(Col_a), JNull, SetMember(JEmptyObject, Col_a, JInt(<<"1">>))}

Absent == JValue("absent", <<>>, <<>>, <<>>)

StoredObject(pk, ck) ==
    LET withPk == IF pk = Absent THEN JEmptyObject
                  ELSE SetMember(JEmptyObject, PK_TARGET_KEY, pk)
    IN  IF ck = Absent THEN withPk ELSE SetMember(withPk, CK_TARGET_KEY, ck)

ObjectTargets ==
    {to_sstring(StoredObject(pk, ck)) :
        pk \in FieldValues \cup {Absent}, ck \in FieldValues \cup {Absent}}

\* other stored strings: bare names, near misses of the legacy form, JSON
\* scalars and arrays, malformed and padded JSON
OtherTargets ==
    { Col_a, Col_b, <<"c">>, <<>>, Col_quoted, Col_lines, Col_nul,
      <<"k", "e", "y", "s", "(", "a", ")", NUL, "x">>,
      <<"1", NUL>>, <<NUL, "1">>,
      <<"{", DQ, "p", "k", DQ, ":", "[", DQ, "a", BS, "u", "0", "0", "0", "0", DQ, "]", "}">>,
      <<"K", "e", "y", "s", "(", "a", ")">>,
      <<" ", "k", "e", "y", "s", "(", "a", ")">>,
      <<"k", "e", "y", "s", "(", "a", ")", " ">>,
      <<"k", "e", "y", "s", "a">>,
      <<"1">>, <<"0", "1">>, <<"1", "a">>,
      <<"t", "r", "u", "e">>, <<"f", "a", "l", "s", "e">>, <<"n", "u", "l", "l">>,
      <<DQ, "a", DQ>>, <<DQ, "a">>,
      <<"[", "]">>, <<"[", DQ, "a", DQ, "]">>, <<"[", "1", ",", "]">>,
      <<"[", "[", DQ, "a", DQ, "]", "]">>,
      <<"{", DQ, "p", "k", DQ, ":", "[", DQ, "a", DQ, "]">>,
      <<"{", DQ, "p", "k", DQ, ":", "[", DQ, "a", DQ, "]", ",", "}">>,
      <<"{", "p", "k", ":", "[", DQ, "a", DQ, "]", "}">>,
      <<"{", DQ, "p", "k", DQ, ":", "[", DQ, "a", DQ, "]", "}", "x">>,
      <<" ", "{", DQ, "p", "k", DQ, " ", ":", " ", "[", DQ, "a", DQ, "]", "}">>,
      <<"{", DQ, "p", "k", DQ, ":", DQ, "a", DQ, ",",
             DQ, "p", "k", DQ, ":", "[", DQ, "b", DQ, "]", "}">>,
      <<"{", DQ, "x", DQ, ":", "[", DQ, "a", DQ, "]", "}">>,
      <<"{", DQ, "c", "k", DQ, ":", "1", ",", DQ, "p", "k", DQ, ":", "{", "}", "}">> }

StoredTargets == OtherTargets \cup FunctionalTargets \cup ObjectTargets

(***************************************************************************)
(* The operations.  A call starts from the idle parser (op = "none").      *)
(***************************************************************************)
NoDesc == [pk_columns |-> <<>>, ck_columns |-> <<>>, path |-> ""]

Init ==
    /\ op = "none"
    /\ schema = Schema(FALSE, {})
    /\ target = <<>>
    /\ targets = <<>>
    /\ origin = "none"
    /\ desc = NoDesc
    /\ ret = NoResult

\* parse(schema, target) of a stored target string
Parse ==
    /\ op = "none"
    /\ \E t \in StoredTargets, sch \in Schemas :
        /\ op' = "parse"
        /\ schema' = sch
        /\ target' = t
        /\ origin' = "stored"
        /\ ret' = parse(sch, t)
        /\ targets' = <<>>
        /\ desc' = NoDesc

\* is_local(target) of a stored target string
IsLocal ==
    /\ op = "none"
    /\ \E t \in StoredTargets :
        /\ op' = "is_local"
        /\ target' = t
        /\ origin' = "stored"
        /\ ret' = is_local(t)
        /\ targets' = <<>>
        /\ desc' = NoDesc
        /\ UNCHANGED schema

\* get_target_column_name_from_string(target) of a stored target string
GetTargetColumnName ==
    /\ op = "none"
    /\ \E t \in StoredTargets :
        /\ op' = "get_target_column_name_from_string"
        /\ target' = t
        /\ origin' = "stored"
        /\ ret' = get_target_column_name_from_string(t)
        /\ targets' = <<>>
        /\ desc' = NoDesc
        /\ UNCHANGED schema

\* serialize_targets(targets); the string it returns is the one stored
SerializeTargets ==
    /\ op = "none"
    /\ \E ts \in TargetLists :
        /\ op' = "serialize_targets"
        /\ targets' = ts
        /\ target' = serialize_targets(ts)
        /\ origin' = "serialized"
        /\ ret' = ReturnedString(serialize_targets(ts))
        /\ desc' = NoDesc
        /\ UNCHANGED schema

\* the targets that stand for a descriptor's columns: its partition key
\* columns first (one column as a single column or as a composite of one),
\* then each clustering key column
RECURSIVE SingleColumns(_, _)
SingleColumns(cs, i) ==
    IF i > Len(cs) THEN <<>> ELSE <<SingleColumn(cs[i])>> \o SingleColumns(cs, i + 1)

ColumnsOf(d, composite) ==
    <<IF Len(d.pk_columns) = 1 /\ ~composite THEN SingleColumn(d.pk_columns[1])
      ELSE MultipleColumns(d.pk_columns)>>
        \o SingleColumns(d.ck_columns, 1)

\* serialize_targets of the columns of the descriptor parse just returned
Reencode ==
    /\ op = "parse"
    /\ ret.status = "returned"
    /\ \E composite \in BOOLEAN :
        /\ op' = "serialize_targets"
        /\ targets' = ColumnsOf(ret, composite)
        /\ target' = serialize_targets(ColumnsOf(ret, composite))
        /\ origin' = "reencoded"
        /\ ret' = ReturnedString(serialize_targets(ColumnsOf(ret, composite)))
        /\ desc' = [pk_columns |-> ret.pk_columns, ck_columns |-> ret.ck_columns,
                    path |-> ret.path]
        /\ UNCHANGED schema

\* parse(schema, target) of the string serialize_targets just returned
Reparse ==
    /\ op = "serialize_targets"
    /\ \E sch \in (IF origin = "reencoded" THEN {schema} ELSE ReparseSchemas) :
        /\ op' = "parse"
        /\ schema' = sch
        /\ ret' = parse(sch, target)
        /\ UNCHANGED <<target, targets, origin, desc>>

\* the call is over: the parser keeps nothing between calls
Return ==
    /\ op # "none"
    /\ op' = "none"
    /\ schema' = Schema(FALSE, {})
    /\ target' = <<>>
    /\ targets' = <<>>
    /\ origin' = "none"
    /\ desc' = NoDesc
    /\ ret' = NoResult

Next ==
    \/ Parse
    \/ IsLocal
    \/ GetTargetColumnName
    \/ SerializeTargets
    \/ Reencode
    \/ Reparse
    \/ Return

Spec == Init /\ [][Next]_vars

(***************************************************************************)
(* Vocabulary of the properties.                                           *)
(***************************************************************************)
Decoded == to_json_value(target)

HasMember(v, key) == isObject(v) /\ MemberIndex(v, key) > 0
Member(v, key) == v.elems[MemberIndex(v, key)]

\* the field is present and is a non-empty array
NonEmptyArrayField(v, key) ==
    HasMember(v, key) /\ isArray(Member(v, key)) /\ Len(Member(v, key).elems) > 0

\* the field is present and is not an array
NonArrayField(v, key) == HasMember(v, key) /\ ~isArray(Member(v, key))

RECURSIVE ColumnsFrom(_, _)
ColumnsFrom(ts, i) ==
    IF i > Len(ts) THEN <<>> ELSE ts[i].columns \o ColumnsFrom(ts, i + 1)

NoDescriptor == ret.pk_columns = <<>> /\ ret.ck_columns = <<>> /\ ret.type = ""

\* C1: a descriptor that parse returned through the JSON-object or the bare
\* path, under a schema with every column, re-encoded with serialize_targets
\* and parsed again, comes back with the same partition key and clustering
\* key columns.
RoundTripFromDescriptor ==
    (op = "parse" /\ origin = "reencoded" /\ schema.any /\ desc.path \in {"json", "bare"})
        => /\ ret.status = "returned"
           /\ ret.pk_columns = desc.pk_columns
           /\ ret.ck_columns = desc.ck_columns

\* C2: every string serialize_targets returns parses back, under a schema
\* with every column, to mode values, the first target's columns as the
\* partition key and the other targets' columns as the clustering key.
SerializedParsesBack ==
    (op = "parse" /\ origin = "serialized" /\ schema.any)
        => /\ ret.status = "returned"
           /\ ret.type = "values"
           /\ ret.pk_columns = targets[1].columns
           /\ ret.ck_columns = ColumnsFrom(targets, 2)

\* C3: is_local returns true exactly when the string is a JSON object whose
\* "pk" and "ck" are both present, arrays and non-empty, and false otherwise.
IsLocalIffBothArraysNonEmpty ==
    op = "is_local"
        => /\ ret.status = "returned"
           /\ ret.flag = (/\ IsJsonObject(Decoded)
                          /\ NonEmptyArrayField(Decoded.val, PK_TARGET_KEY)
                          /\ NonEmptyArrayField(Decoded.val, CK_TARGET_KEY))

\* C4: is_local and get_target_column_name_from_string return a value for
\* every input string; neither throws.
HelpersNeverThrow ==
    op \in {"is_local", "get_target_column_name_from_string"}
        => ret.status = "returned"

\* C5: every descriptor parse returns has at least one partition key column.
ParsedPartitionKeyNonEmpty ==
    (op = "parse" /\ ret.status = "returned") => Len(ret.pk_columns) >= 1

\* the keywords of the legacy functional form, as the property names them
ModeKeywords ==
    { <<"k", "e", "y", "s">>, <<"e", "n", "t", "r", "i", "e", "s">>,
      <<"v", "a", "l", "u", "e", "s">>, <<"f", "u", "l", "l">> }

\* the target is kw(c): c, the text between the parentheses
IsCall(kw) ==
    /\ Len(target) >= Len(kw) + 2
    /\ SubSeq(target, 1, Len(kw) + 1) = kw \o <<"(">>
    /\ target[Len(target)] = ")"

CallArgument(kw) == SubSeq(target, Len(kw) + 2, Len(target) - 1)

\* the target is m(c) for a keyword m and a column name c
IsFunctionalForm == \E kw \in ModeKeywords : IsCall(kw)

OneColumn(c, type) ==
    /\ ret.status = "returned"
    /\ ret.type = type
    /\ ret.pk_columns = <<c>>
    /\ ret.ck_columns = <<>>

\* a descriptor of the functional form or of the fallback has one partition
\* key column and no clustering key column
LegacyShape ==
    (op = "parse" /\ ret.status = "returned" /\ ret.path \in {"functional", "bare"})
        => Len(ret.pk_columns) = 1 /\ Len(ret.ck_columns) = 0

\* a string that is neither a functional form nor a JSON object, and names
\* a column of the schema, is that one column, mode values
FallbackWholeString ==
    (/\ op = "parse"
     /\ ~IsFunctionalForm
     /\ ~IsJsonObject(Decoded)
     /\ get_column_definition(schema, target))
        => OneColumn(target, "values") /\ ret.path = "bare"

\* C6: a descriptor of the functional form or of the fallback has one
\* partition key column and no clustering key column; parse of m(c) has mode
\* m and the single partition key column c for every keyword m and every
\* column c of the schema; and parse of a string that is neither m(c) nor a
\* JSON object, and names a column of the schema, has mode values and the
\* whole string as its single partition key column.
LegacyFormsAnyColumn ==
    /\ LegacyShape
    /\ FallbackWholeString
    /\ \A kw \in ModeKeywords :
        (/\ op = "parse"
         /\ IsCall(kw)
         /\ get_column_definition(schema, CallArgument(kw)))
            => OneColumn(CallArgument(kw), from_sstring(kw))

\* C7: parse of a JSON object whose "pk" or "ck" is present and not an array
\* throws "pk and ck fields of JSON definition must be arrays" under every
\* schema, whatever the other field holds, and returns no descriptor.
NonArrayFieldIsMalformed ==
    (/\ op = "parse"
     /\ IsJsonObject(Decoded)
     /\ \/ NonArrayField(Decoded.val, PK_TARGET_KEY)
        \/ NonArrayField(Decoded.val, CK_TARGET_KEY))
        => /\ ret.status = "threw"
           /\ ret.exc = "std::runtime_error"
           /\ ret.what = "pk and ck fields of JSON definition must be arrays"
           /\ NoDescriptor

\* "ck" is not an array and "pk" is an array naming a column the schema
\* does not have
NonArrayFieldWitness ==
    /\ op = "parse"
    /\ ret.what = "pk and ck fields of JSON definition must be arrays"
    /\ ~schema.any
    /\ NonArrayField(Decoded.val, CK_TARGET_KEY)
    /\ NonEmptyArrayField(Decoded.val, PK_TARGET_KEY)
    /\ Member(Decoded.val, PK_TARGET_KEY).elems[1].type = "string"
    /\ Member(Decoded.val, PK_TARGET_KEY).elems[1].str \notin schema.columns

\* the first element of the array, from position i on, that names no column
\* of the schema: its position, or 0
RECURSIVE FirstUnresolved(_, _)
FirstUnresolved(arr, i) ==
    IF i > Len(arr.elems) THEN 0
    ELSE IF ~get_column_definition(schema, asString(arr.elems[i])) THEN i
    ELSE FirstUnresolved(arr, i + 1)

\* C8: an unresolved column name makes parse throw "Column not found" for
\* that name, with no descriptor, on the three paths; of a JSON object the
\* name reported is the first unresolved one, "pk" before "ck"; and parse of
\* a JSON object whose "pk" and "ck" are arrays throws nothing else.
UnresolvedIsColumnNotFound ==
    LET m == regex_match(target)
        pk == get(Decoded.val, PK_TARGET_KEY, JArray(<<>>))
        ck == get(Decoded.val, CK_TARGET_KEY, JArray(<<>>))
        arrays == ~m.matched /\ IsJsonObject(Decoded) /\ isArray(pk) /\ isArray(ck)
        expected == IF FirstUnresolved(pk, 1) > 0
                    THEN asString(pk.elems[FirstUnresolved(pk, 1)])
                    ELSE asString(ck.elems[FirstUnresolved(ck, 1)])
    IN  op = "parse" =>
          /\ (ret.what = "Column not found")
                => /\ ret.status = "threw"
                   /\ NoDescriptor
                   /\ ~get_column_definition(schema, ret.name)
          /\ (m.matched /\ ~get_column_definition(schema, m.m2))
                => ret.what = "Column not found" /\ ret.name = m.m2
          /\ (~m.matched /\ ~IsJsonObject(Decoded) /\ ~get_column_definition(schema, target))
                => ret.what = "Column not found" /\ ret.name = target
          /\ (arrays /\ (FirstUnresolved(pk, 1) > 0 \/ FirstUnresolved(ck, 1) > 0))
                => ret.what = "Column not found" /\ ret.name = expected
          /\ (arrays /\ ret.status = "threw") => ret.what = "Column not found"

\* the JSON text serialize_targets returned, decoded
Written == to_json_value(ret.str)

\* C9: serialize_targets of one single column returns the column's name;
\* of anything else, a JSON object whose "pk" is the array of the first
\* target's column names and which has a "ck" exactly when there are more
\* targets, one entry per further target, in order.
SerializedShape ==
    op = "serialize_targets" =>
        IF Len(targets) = 1 /\ targets[1].kind = "single_column"
        THEN ret.str = targets[1].columns[1]
        ELSE /\ Written.ok
             /\ Written.pos = Len(ret.str) + 1
             /\ isObject(Written.val)
             /\ \A i \in 1..Len(Written.val.names) :
                    Written.val.names[i] \in {PK_TARGET_KEY, CK_TARGET_KEY}
             /\ HasMember(Written.val, PK_TARGET_KEY)
             /\ Member(Written.val, PK_TARGET_KEY) = JArray(JStrings(targets[1].columns, 1))
             /\ HasMember(Written.val, CK_TARGET_KEY) <=> Len(targets) > 1
             /\ Len(targets) > 1 =>
                  /\ isArray(Member(Written.val, CK_TARGET_KEY))
                  /\ Len(Member(Written.val, CK_TARGET_KEY).elems) = Len(targets) - 1
                  /\ \A i \in 2..Len(targets) :
                        Member(Written.val, CK_TARGET_KEY).elems[i - 1] =
                            (IF targets[i].kind = "single_column"
                             THEN JString(targets[i].columns[1])
                             ELSE JArray(JStrings(targets[i].columns, 1)))

\* a single column followed by a composite was serialized, and so was one
\* composite alone
SerializedShapeWitness ==
    /\ op = "serialize_targets"
    /\ origin = "serialized"
    /\ Len(targets) = 2
    /\ targets[1] = SingleColumn(Col_quoted)
    /\ targets[2] = MultipleColumns(<<Col_b, Col_a>>)
    /\ Written.ok

\* C10: get_target_column_name_from_string returns the string unchanged when
\* it is no JSON or a JSON value that is no object; else the first element
\* of a present, non-empty "ck" array as a string; else that of a present,
\* non-empty "pk" array; else the string unchanged.
PrimaryColumnName ==
    op = "get_target_column_name_from_string" =>
        /\ ret.status = "returned"
        /\ IF ~IsJsonObject(Decoded) THEN ret.str = target
           ELSE IF NonEmptyArrayField(Decoded.val, CK_TARGET_KEY)
                THEN ~AsStringThrows(Member(Decoded.val, CK_TARGET_KEY).elems[1])
                        => ret.str = asString(Member(Decoded.val, CK_TARGET_KEY).elems[1])
           ELSE IF NonEmptyArrayField(Decoded.val, PK_TARGET_KEY)
                THEN ~AsStringThrows(Member(Decoded.val, PK_TARGET_KEY).elems[1])
                        => ret.str = asString(Member(Decoded.val, PK_TARGET_KEY).elems[1])
           ELSE ret.str = target

=============================================================================
